---- MODULE Spec2Model ----
(***************************************************************************)
(* AtomECS: the laser pipeline registered by laser::add_systems_to_dispatch *)
(* (src/laser/mod.rs), the dipole force system (src/dipole/dipole_force.rs) *)
(* and the force clearing system (src/atom.rs).                            *)
(*                                                                         *)
(* SpecDispatch models one dispatcher built by add_systems_to_dispatch:     *)
(* every registered system is waiting, running or done in the current step, *)
(* and a system may start once the systems it names as dependencies, and    *)
(* the systems registered before the barrier when it was registered after   *)
(* it, are done.                                                           *)
(*                                                                         *)
(* SpecDipole models a world of atom and beam entities on which             *)
(* ApplyDipoleForceSystem and ClearForceSystem run.                         *)
(***************************************************************************)
EXTENDS Integers, Sequences, FiniteSets, TLC

VARIABLES
    callerDeps,   \* the `deps` argument of add_systems_to_dispatch
    stPc,         \* per registered system: "waiting", "running" or "done"
    force,        \* Force storage: entity -> Vector3
    transition,   \* AtomicDipoleTransition storage: entity -> record
    sampler,      \* LaserIntensityGradientSamplers storage: entity -> array
    dipoleLight,  \* DipoleLight storage: entity -> record
    dipoleIndex,  \* DipoleLightIndex storage: entity -> record
    sysPc,        \* "idle", or "running" while ApplyDipoleForceSystem::run is active
    pending,      \* entities of the par_join whose closure has not run yet
    returned,     \* entities whose closure has returned in the current run
    panicked,     \* TRUE once a closure of the current run has panicked
    forceBefore,  \* the Force storage when the current (or last) run started
    runs,         \* number of started runs of ApplyDipoleForceSystem
    newlyCreated, \* NewlyCreated storage: the entities that carry the marker
    laser,        \* laser component storages: <<entity, component>> -> value
    lazyQueue,    \* LazyUpdate: the inserts queued until World::maintain
    attachPc,     \* "idle", "running" (the attach system runs) or "done"
    attachTodo    \* the updater.insert calls the running attach system still makes

dispatchVars == <<callerDeps, stPc>>
dipoleVars == <<force, transition, sampler, dipoleLight, dipoleIndex, sysPc,
                pending, returned, panicked, forceBefore, runs>>
attachVars == <<newlyCreated, laser, lazyQueue, attachPc, attachTodo>>
vars == <<callerDeps, stPc, force, transition, sampler, dipoleLight,
          dipoleIndex, sysPc, pending, returned, panicked, forceBefore, runs,
          newlyCreated, laser, lazyQueue, attachPc, attachTodo>>

(***************************************************************************)
(* The dispatcher built by add_systems_to_dispatch                         *)
(***************************************************************************)

\* Systems of the caller that the pipeline names: the ones `deps` may hold
\* (here the force clearing system) and "zeeman_shift".  DispatcherBuilder::with
\* resolves a dependency name when the system is added, so every one of them
\* was registered before add_systems_to_dispatch ran.
ExternalStages == {"clear_force", "zeeman_shift"}

\* The systems added before builder.add_barrier(), in registration order.
PreBarrierOrder ==
    << "attach_atom_laser_components",
       "attach_cooling_index",
       "index_cooling_lights",
       "initialise_laser_intensity",
       "initialise_doppler_shift",
       "initialise_laser_detuning",
       "initialise_rate_coefficient",
       "initialise_expected_photons",
       "initialise_actual_photons" >>

\* The systems added after builder.add_barrier(), in registration order.
PostBarrierOrder ==
    << "sample_laser_intensity",
       "calculate_doppler_shift",
       "calculate_laser_detuning",
       "calculate_rate_coefficients",
       "calculate_twolevel",
       "calculate_total_photons",
       "calculate_expected_photons",
       "calculate_actual_photons",
       "calculate_absorption_forces",
       "repump",
       "calculate_emission_forces" >>

Range(seq) == {seq[i] : i \in 1..Len(seq)}

PreBarrierStages == Range(PreBarrierOrder)
PostBarrierStages == Range(PostBarrierOrder)
PipelineStages == PreBarrierStages \cup PostBarrierStages
Stages == ExternalStages \cup PipelineStages

InitialiseStages ==
    { "initialise_laser_intensity", "initialise_doppler_shift",
      "initialise_laser_detuning", "initialise_rate_coefficient",
      "initialise_expected_photons", "initialise_actual_photons" }

\* Mutant of StageDeps: attach_cooling_index registered without `deps`.
StageDepsIndexWithoutCallerDeps(s) ==
    CASE s = "attach_atom_laser_components" -> callerDeps
      [] s = "attach_cooling_index" -> {}
      [] s = "index_cooling_lights" -> {"attach_cooling_index"}
      [] s \in InitialiseStages -> {"index_cooling_lights"}
      [] s = "sample_laser_intensity" -> {"initialise_actual_photons"}
      [] s = "calculate_doppler_shift" -> {"initialise_actual_photons"}
      [] s = "calculate_laser_detuning" -> {"calculate_doppler_shift", "zeeman_shift"}
      [] s = "calculate_rate_coefficients" -> {"calculate_laser_detuning"}
      [] s = "calculate_twolevel" -> {"calculate_rate_coefficients"}
      [] s = "calculate_total_photons" -> {"calculate_twolevel"}
      [] s = "calculate_expected_photons" -> {"calculate_total_photons"}
      [] s = "calculate_actual_photons" -> {"calculate_expected_photons"}
      [] s = "calculate_absorption_forces" -> {"calculate_actual_photons"}
      [] s = "repump" -> {"calculate_absorption_forces"}
      [] s = "calculate_emission_forces" -> {"calculate_absorption_forces"}
      [] OTHER -> {}

\* Mutant of StageDeps: calculate_laser_detuning registered without
\* "calculate_doppler_shift".
StageDepsDetuningWithoutDoppler(s) ==
    CASE s = "attach_atom_laser_components" -> callerDeps
      [] s = "attach_cooling_index" -> callerDeps
      [] s = "index_cooling_lights" -> {"attach_cooling_index"}
      [] s \in InitialiseStages -> {"index_cooling_lights"}
      [] s = "sample_laser_intensity" -> {"initialise_actual_photons"}
      [] s = "calculate_doppler_shift" -> {"initialise_actual_photons"}
      [] s = "calculate_laser_detuning" -> {"zeeman_shift"}
      [] s = "calculate_rate_coefficients" -> {"calculate_laser_detuning"}
      [] s = "calculate_twolevel" -> {"calculate_rate_coefficients"}
      [] s = "calculate_total_photons" -> {"calculate_twolevel"}
      [] s = "calculate_expected_photons" -> {"calculate_total_photons"}
      [] s = "calculate_actual_photons" -> {"calculate_expected_photons"}
      [] s = "calculate_absorption_forces" -> {"calculate_actual_photons"}
      [] s = "repump" -> {"calculate_absorption_forces"}
      [] s = "calculate_emission_forces" -> {"calculate_absorption_forces"}
      [] OTHER -> {}

\* Mutant of StageDeps: calculate_doppler_shift registered as depending on
\* "calculate_laser_detuning", which depends on it.
StageDepsDopplerAfterDetuning(s) ==
    CASE s = "attach_atom_laser_components" -> callerDeps
      [] s = "attach_cooling_index" -> callerDeps
      [] s = "index_cooling_lights" -> {"attach_cooling_index"}
      [] s \in InitialiseStages -> {"index_cooling_lights"}
      [] s = "sample_laser_intensity" -> {"initialise_actual_photons"}
      [] s = "calculate_doppler_shift" -> {"calculate_laser_detuning"}
      [] s = "calculate_laser_detuning" -> {"calculate_doppler_shift", "zeeman_shift"}
      [] s = "calculate_rate_coefficients" -> {"calculate_laser_detuning"}
      [] s = "calculate_twolevel" -> {"calculate_rate_coefficients"}
      [] s = "calculate_total_photons" -> {"calculate_twolevel"}
      [] s = "calculate_expected_photons" -> {"calculate_total_photons"}
      [] s = "calculate_actual_photons" -> {"calculate_expected_photons"}
      [] s = "calculate_absorption_forces" -> {"calculate_actual_photons"}
      [] s = "repump" -> {"calculate_absorption_forces"}
      [] s = "calculate_emission_forces" -> {"calculate_absorption_forces"}
      [] OTHER -> {}

\* Mutant of StageDeps: calculate_emission_forces registered as depending on
\* "calculate_actual_photons" instead of "calculate_absorption_forces".
StageDepsEmissionAfterActual(s) ==
    CASE s = "attach_atom_laser_components" -> callerDeps
      [] s = "attach_cooling_index" -> callerDeps
      [] s = "index_cooling_lights" -> {"attach_cooling_index"}
      [] s \in InitialiseStages -> {"index_cooling_lights"}
      [] s = "sample_laser_intensity" -> {"initialise_actual_photons"}
      [] s = "calculate_doppler_shift" -> {"initialise_actual_photons"}
      [] s = "calculate_laser_detuning" -> {"calculate_doppler_shift", "zeeman_shift"}
      [] s = "calculate_rate_coefficients" -> {"calculate_laser_detuning"}
      [] s = "calculate_twolevel" -> {"calculate_rate_coefficients"}
      [] s = "calculate_total_photons" -> {"calculate_twolevel"}
      [] s = "calculate_expected_photons" -> {"calculate_total_photons"}
      [] s = "calculate_actual_photons" -> {"calculate_expected_photons"}
      [] s = "calculate_absorption_forces" -> {"calculate_actual_photons"}
      [] s = "repump" -> {"calculate_absorption_forces"}
      [] s = "calculate_emission_forces" -> {"calculate_actual_photons"}
      [] OTHER -> {}

\* The third argument of each builder.with(system, name, dependencies).
\* The caller's systems declare no dependency the pipeline knows of.
StageDeps(s) ==
    CASE s = "attach_atom_laser_components" -> callerDeps
      [] s = "attach_cooling_index" -> callerDeps
      [] s = "index_cooling_lights" -> {"attach_cooling_index"}
      [] s \in InitialiseStages -> {"index_cooling_lights"}
      [] s = "sample_laser_intensity" -> {"initialise_actual_photons"}
      [] s = "calculate_doppler_shift" -> {"initialise_actual_photons"}
      [] s = "calculate_laser_detuning" -> {"calculate_doppler_shift", "zeeman_shift"}
      [] s = "calculate_rate_coefficients" -> {"calculate_laser_detuning"}
      [] s = "calculate_twolevel" -> {"calculate_rate_coefficients"}
      [] s = "calculate_total_photons" -> {"calculate_twolevel"}
      [] s = "calculate_expected_photons" -> {"calculate_total_photons"}
      [] s = "calculate_actual_photons" -> {"calculate_expected_photons"}
      [] s = "calculate_absorption_forces" -> {"calculate_actual_photons"}
      [] s = "repump" -> {"calculate_absorption_forces"}
      [] s = "calculate_emission_forces" -> {"calculate_absorption_forces"}
      [] OTHER -> {}

\* Mutant of BarrierPredecessors: builder.add_barrier() left out.
BarrierPredecessorsNoBarrier(s) == {}

\* builder.add_barrier(): a system added after the barrier runs after every
\* system added to the builder before it.
BarrierPredecessors(s) ==
    IF s \in PostBarrierStages THEN ExternalStages \cup PreBarrierStages ELSE {}

\* The systems that must be done before s may start.
Predecessors(s) == StageDeps(s) \cup BarrierPredecessors(s)

CanStart(s) == \A d \in Predecessors(s) : stPc[d] = "done"

DispatchInit ==
    /\ callerDeps \in SUBSET ExternalStages
    /\ stPc = [s \in Stages |-> "waiting"]

\* A worker thread picks up a system whose predecessors are done.
StartStage(s) ==
    /\ stPc[s] = "waiting"
    /\ CanStart(s)
    /\ stPc' = [stPc EXCEPT ![s] = "running"]
    /\ UNCHANGED callerDeps

\* The system's run() returns.
FinishStage(s) ==
    /\ stPc[s] = "running"
    /\ stPc' = [stPc EXCEPT ![s] = "done"]
    /\ UNCHANGED callerDeps

\* dispatch() returns once every system has run; the next step starts afresh.
EndStep ==
    /\ \A s \in Stages : stPc[s] = "done"
    /\ stPc' = [s \in Stages |-> "waiting"]
    /\ UNCHANGED callerDeps

(***************************************************************************)
(* f64 arithmetic, modelled exactly: a value is n/d in lowest terms with   *)
(* d > 0, and d = 0 stands for the non-finite values of IEEE 754:          *)
(* 1/0 is +inf, -1/0 is -inf and 0/0 is NaN.  Rounding is not modelled.    *)
(***************************************************************************)
Abs(x) == IF x < 0 THEN -x ELSE x
Sign(x) == IF x < 0 THEN -1 ELSE IF x > 0 THEN 1 ELSE 0

RECURSIVE GCD(_, _)
GCD(a, b) == IF b = 0 THEN a ELSE GCD(b, a % b)

Norm(n, d) ==
    IF d = 0 THEN [n |-> Sign(n), d |-> 0]
    ELSE LET g == GCD(Abs(n), Abs(d))
             s == IF d < 0 THEN -1 ELSE 1
         IN [n |-> (s * n) \div g, d |-> (s * d) \div g]

R(k) == [n |-> k, d |-> 1]
NaN == [n |-> 0, d |-> 0]
IsFinite(a) == a.d # 0

RNeg(a) == [n |-> -a.n, d |-> a.d]
RAdd(a, b) ==
    IF a.d = 0 /\ b.d = 0
    THEN (IF a.n = b.n THEN a ELSE NaN)
    ELSE Norm(a.n * b.d + b.n * a.d, a.d * b.d)
RSub(a, b) == RAdd(a, RNeg(b))
RMul(a, b) == Norm(a.n * b.n, a.d * b.d)
RInv(a) == Norm(a.d, a.n)
RDiv(a, b) == RMul(a, RInv(b))

\* f64::powf with a small whole exponent
RECURSIVE RPow(_, _)
RPow(a, k) == IF k = 0 THEN R(1) ELSE RMul(a, RPow(a, k - 1))

\* nalgebra::Vector3<f64>
Vector3(x, y, z) == <<R(x), R(y), R(z)>>
VAdd(u, v) == <<RAdd(u[1], v[1]), RAdd(u[2], v[2]), RAdd(u[3], v[3])>>
VSub(u, v) == <<RSub(u[1], v[1]), RSub(u[2], v[2]), RSub(u[3], v[3])>>
VScale(r, v) == <<RMul(r, v[1]), RMul(r, v[2]), RMul(r, v[3])>>
VFinite(v) == IsFinite(v[1]) /\ IsFinite(v[2]) /\ IsFinite(v[3])

(***************************************************************************)
(* The world of ApplyDipoleForceSystem and ClearForceSystem                *)
(***************************************************************************)

\* Length of LaserIntensityGradientSamplers.contents (crate::dipole::BEAM_LIMIT),
\* scaled down.
BEAM_LIMIT == 2

\* Number of runs of ApplyDipoleForceSystem that are explored.
MaxRuns == 2

\* constant::PI and constant::C.  Whole numbers stand for the physical values;
\* the arithmetic on them is exact.
PI == 3
C == 6

\* Entities in creation order: the beams are created first, then the atoms.
BeamEntities == {0, 1}
AtomEntities == {2, 3}
Entities == BeamEntities \cup AtomEntities

\* A component storage maps the entities that carry the component to its value.
Has(storage, e) == e \in DOMAIN storage

\* Force value an earlier system of the step has left (ClearForce gives zero).
InitForces == {Vector3(1, 1, 1)}

\* AtomicDipoleTransition { frequency, linewidth, .. }
Transitions == {[frequency |-> R(2), linewidth |-> R(1)]}

\* DipoleLight { wavelength }: beams above, at and below the transition frequency.
Lights == {[wavelength |-> R(2)], [wavelength |-> R(3)], [wavelength |-> R(6)]}
RedLight == [wavelength |-> R(6)]

\* DipoleLightIndex { index, initiated }; index BEAM_LIMIT is past the array.
Indices == {[index |-> i, initiated |-> TRUE] : i \in 0..BEAM_LIMIT}

\* LaserIntensityGradientSampler { gradient } values
GradValues == {Vector3(0, 0, 0), Vector3(0, 1, -2), Vector3(1, 0, 0)}

\* LaserIntensityGradientSamplers { contents: [_; BEAM_LIMIT] }: slot i of the
\* array is element i + 1 of the sequence.
\* The default array, and one whose slots hold different gradients.
SamplerValues ==
    { [i \in 1..BEAM_LIMIT |-> [gradient |-> Vector3(0, 0, 0)]],
      [i \in 1..BEAM_LIMIT |->
          [gradient |-> IF i = 1 THEN Vector3(0, 1, -2) ELSE Vector3(i - 1, 0, 0)]] }

Storages(domains, values) == UNION {[D -> values] : D \in domains}

\* dipole_beam::DipoleLight::frequency()
frequency(dipole) == RDiv(R(C), dipole.wavelength)

\* (&dipole_index, &dipole_light).join(): the entities carrying both.
LiveBeams == {e \in Entities : Has(dipoleIndex, e) /\ Has(dipoleLight, e)}

\* Mutant of JoinedAtoms: the iteration ends at the first entity that lacks a
\* component instead of skipping it.
JoinedAtomsUntilGap ==
    {e \in Entities :
        \A x \in Entities :
            (x <= e /\ (Has(force, x) \/ Has(transition, x) \/ Has(sampler, x)))
                => (Has(force, x) /\ Has(transition, x) /\ Has(sampler, x))}

\* (&mut force, &atomic_transition, &gradient_sampler).par_join(): the entities
\* carrying all three.
JoinedAtoms ==
    {e \in Entities : Has(force, e) /\ Has(transition, e) /\ Has(sampler, e)}

\* let prefactor = -3. * PI * C.powf(2.0)
\*     / (2. * (2. * PI * atominfo.frequency).powf(3.0)) * atominfo.linewidth;
Prefactor(atominfo) ==
    RMul(RDiv(RMul(RMul(R(-3), R(PI)), RPow(R(C), 2)),
              RMul(R(2), RPow(RMul(RMul(R(2), R(PI)), atominfo.frequency), 3))),
         atominfo.linewidth)

\* Mutant of InitialTempForceCoeff: the accumulator does not start at zero.
InitialTempForceCoeffNonZero == Vector3(1, 1, 1)

\* let mut temp_force_coeff = Vector3::new(0.0, 0.0, 0.0);
InitialTempForceCoeff == Vector3(0, 0, 0)

\* Mutant of BeamCoefficient: the second term subtracted.
BeamCoefficientMinus(atominfo, dipole) ==
    RSub(RDiv(R(1), RSub(atominfo.frequency, frequency(dipole))),
         RDiv(R(1), RAdd(atominfo.frequency, frequency(dipole))))

\* 1. / (atominfo.frequency - dipole.frequency())
\*     + 1. / (atominfo.frequency + dipole.frequency())
BeamCoefficient(atominfo, dipole) ==
    RAdd(RDiv(R(1), RSub(atominfo.frequency, frequency(dipole))),
         RDiv(R(1), RAdd(atominfo.frequency, frequency(dipole))))

\* Mutant of BeamSlot: every beam reads the first slot.
BeamSlotFirst(index) == 1

\* sampler.contents[index.index]
BeamSlot(index) == index.index + 1

MinOf(S) == CHOOSE x \in S : \A y \in S : x <= y

\* for (index, dipole) in (&dipole_index, &dipole_light).join() { .. }, in
\* entity order.  An index past the end of contents panics.
RECURSIVE BeamLoop(_, _, _, _)
BeamLoop(temp, beams, atominfo, smp) ==
    IF beams = {} THEN [ok |-> TRUE, v |-> temp]
    ELSE LET b == MinOf(beams)
         IN IF BeamSlot(dipoleIndex[b]) \notin DOMAIN smp
            THEN [ok |-> FALSE, v |-> temp]
            ELSE BeamLoop(
                   VSub(temp,
                        VScale(BeamCoefficient(atominfo, dipoleLight[b]),
                               smp[BeamSlot(dipoleIndex[b])].gradient)),
                   beams \ {b}, atominfo, smp)

TempForceCoeff(atominfo, smp) ==
    BeamLoop(InitialTempForceCoeff, LiveBeams, atominfo, smp)

\* prefactor * temp_force_coeff
DipoleContribution(atominfo, smp) ==
    VScale(Prefactor(atominfo), TempForceCoeff(atominfo, smp).v)

\* Mutant of ApplyForce: the force is overwritten.
ApplyForceOverwrite(f, contribution) == contribution

\* force.force = force.force + prefactor * temp_force_coeff;
ApplyForce(f, contribution) == VAdd(f, contribution)

DipoleIdle ==
    /\ force = <<>>
    /\ transition = <<>>
    /\ sampler = <<>>
    /\ dipoleLight = <<>>
    /\ dipoleIndex = <<>>
    /\ sysPc = "idle"
    /\ pending = {}
    /\ returned = {}
    /\ panicked = FALSE
    /\ forceBefore = <<>>
    /\ runs = 0

\* The worlds explored: no entity carries a Force (no atom exists yet), or the
\* second atom carries all three components and the first may lack any of
\* them; the first beam entity may carry any light
\* and any index, the second is absent, carries a red-detuned light alone, or
\* is a red-detuned beam with an index inside the array.
DipoleInit ==
    /\ force \in Storages({{2, 3}, {3}, {}}, InitForces)
    /\ transition \in Storages({{2, 3}, {3}}, Transitions)
    /\ sampler \in Storages({{2, 3}, {3}}, SamplerValues)
    /\ dipoleLight \in Storages(SUBSET BeamEntities, Lights)
    /\ Has(dipoleLight, 1) => dipoleLight[1] = RedLight
    /\ dipoleIndex \in Storages(SUBSET BeamEntities, Indices)
    /\ Has(dipoleIndex, 1) => (Has(dipoleLight, 1) /\ dipoleIndex[1].index < BEAM_LIMIT)
    /\ sysPc = "idle"
    /\ pending = {}
    /\ returned = {}
    /\ panicked = FALSE
    /\ forceBefore = force
    /\ runs = 0

\* ApplyDipoleForceSystem::run is entered: par_join hands one closure per
\* joined entity to the thread pool.
RunStart ==
    /\ sysPc = "idle"
    /\ runs < MaxRuns
    /\ sysPc' = "running"
    /\ pending' = JoinedAtoms
    /\ returned' = {}
    /\ panicked' = FALSE
    /\ forceBefore' = force
    /\ runs' = runs + 1
    /\ UNCHANGED <<force, transition, sampler, dipoleLight, dipoleIndex>>

\* Mutant of JoinedTuple: the closure is handed the sampler of the last
\* entity of the storage instead of its own entity's.
JoinedTupleLastSampler(e) ==
    [force |-> force[e], atominfo |-> transition[e],
     sampler |-> sampler[CHOOSE x \in DOMAIN sampler :
                             \A y \in DOMAIN sampler : y <= x]]

\* The tuple (force, atominfo, sampler) par_join hands to the closure for
\* entity e: the three components of that one entity.
JoinedTuple(e) ==
    [force |-> force[e], atominfo |-> transition[e], sampler |-> sampler[e]]

\* The closure of for_each runs for entity e on some worker thread.
Closure(e) ==
    /\ sysPc = "running"
    /\ e \in pending
    /\ pending' = pending \ {e}
    /\ LET t == JoinedTuple(e)
           temp == TempForceCoeff(t.atominfo, t.sampler)
       IN IF temp.ok
          THEN /\ force' = [force EXCEPT ![e] =
                               ApplyForce(t.force, VScale(Prefactor(t.atominfo), temp.v))]
               /\ returned' = returned \cup {e}
               /\ UNCHANGED panicked
          ELSE /\ panicked' = TRUE
               /\ UNCHANGED <<force, returned>>
    /\ UNCHANGED <<transition, sampler, dipoleLight, dipoleIndex, sysPc,
                   forceBefore, runs>>

\* Every closure has returned: run returns.
RunEnd ==
    /\ sysPc = "running"
    /\ pending = {}
    /\ ~panicked
    /\ sysPc' = "idle"
    /\ UNCHANGED <<force, transition, sampler, dipoleLight, dipoleIndex,
                   pending, returned, panicked, forceBefore, runs>>

\* A closure has panicked: the panic leaves for_each and run, whether or not
\* the other closures have run, and ends the program.
RunPanic ==
    /\ sysPc = "running"
    /\ panicked
    /\ sysPc' = "aborted"
    /\ UNCHANGED <<force, transition, sampler, dipoleLight, dipoleIndex,
                   pending, returned, panicked, forceBefore, runs>>

\* Mutant of ClearedStorage: only the entities that are atoms (that carry an
\* AtomicDipoleTransition) are cleared.
ClearedStorageAtomsOnly(storage) ==
    [e \in DOMAIN storage |->
        IF e \in DOMAIN transition THEN Vector3(0, 0, 0) ELSE storage[e]]

\* Mutant of ClearedStorage: the loop body is never executed.
ClearedStorageUnchanged(storage) == storage

\* for force in (&mut force).join() { force.force = Vector3::new(0.0, 0.0, 0.0); }
ClearedStorage(storage) == [e \in DOMAIN storage |-> Vector3(0, 0, 0)]

\* ClearForceSystem::run
ClearForce ==
    /\ sysPc = "idle"
    /\ force' = ClearedStorage(force)
    /\ UNCHANGED <<transition, sampler, dipoleLight, dipoleIndex, sysPc,
                   pending, returned, panicked, forceBefore, runs>>

(***************************************************************************)
(* Simulation steps: every step runs ClearForceSystem, then                *)
(* ApplyDipoleForceSystem; between two steps beam entities come and go.    *)
(***************************************************************************)
\* The step starts: ClearForceSystem::run.
StepClear ==
    /\ sysPc = "idle"
    /\ runs < MaxRuns
    /\ force' = ClearedStorage(force)
    /\ sysPc' = "cleared"
    /\ UNCHANGED <<transition, sampler, dipoleLight, dipoleIndex,
                   pending, returned, panicked, forceBefore, runs>>

\* ApplyDipoleForceSystem::run is entered after the forces were cleared.
StepRunStart ==
    /\ sysPc = "cleared"
    /\ sysPc' = "running"
    /\ pending' = JoinedAtoms
    /\ returned' = {}
    /\ panicked' = FALSE
    /\ forceBefore' = force
    /\ runs' = runs + 1
    /\ UNCHANGED <<force, transition, sampler, dipoleLight, dipoleIndex>>

\* Between two steps a beam entity is created with a DipoleLightIndex and a
\* DipoleLight.
AddBeam(b) ==
    /\ sysPc = "idle"
    /\ runs > 0
    /\ ~Has(dipoleLight, b) /\ ~Has(dipoleIndex, b)
    /\ \E l \in Lights, i \in Indices :
          /\ b = 1 => (l = RedLight /\ i.index < BEAM_LIMIT)
          /\ dipoleLight' = [e \in DOMAIN dipoleLight \cup {b} |->
                                IF e = b THEN l ELSE dipoleLight[e]]
          /\ dipoleIndex' = [e \in DOMAIN dipoleIndex \cup {b} |->
                                IF e = b THEN i ELSE dipoleIndex[e]]
    /\ UNCHANGED <<force, transition, sampler, sysPc,
                   pending, returned, panicked, forceBefore, runs>>

\* Between two steps a beam entity is deleted with all its components.
RemoveBeam(b) ==
    /\ sysPc = "idle"
    /\ runs > 0
    /\ Has(dipoleLight, b) \/ Has(dipoleIndex, b)
    /\ dipoleLight' = [e \in DOMAIN dipoleLight \ {b} |-> dipoleLight[e]]
    /\ dipoleIndex' = [e \in DOMAIN dipoleIndex \ {b} |-> dipoleIndex[e]]
    /\ UNCHANGED <<force, transition, sampler, sysPc,
                   pending, returned, panicked, forceBefore, runs>>

(***************************************************************************)
(* AttachLaserComponentsToNewlyCreatedAtomsSystem and LazyUpdate           *)
(***************************************************************************)
MaxPhotons == 2

\* The components the system inserts, in the order of its updater.insert calls.
LaserComponentOrder ==
    << "DopplerShiftSamplers",
       "LaserIntensitySamplers",
       "LaserDetuningSamplers",
       "RateCoefficients",
       "TwoLevelPopulation",
       "TotalPhotonsScattered",
       "ExpectedPhotonsScatteredVector",
       "ActualPhotonsScatteredVector" >>

LaserComponents == Range(LaserComponentOrder)

\* The components that hold one slot per beam in `contents`.
ArrayComponents ==
    LaserComponents \ {"TwoLevelPopulation", "TotalPhotonsScattered"}

\* Vec::new()
NewVec == << >>

\* The value the system inserts for component c.
DefaultComponent(c) ==
    IF c \in ArrayComponents THEN [contents |-> NewVec]
    ELSE IF c = "TotalPhotonsScattered" THEN [total |-> 0]
    ELSE [ground |-> "default", excited |-> "default"]

\* The laser components entity e carries.
Comps(e) == {c \in LaserComponents : <<e, c>> \in DOMAIN laser}

\* The eight updater.insert calls of one iteration of the loop.
AttachCallsFor(e) ==
    [i \in 1..Len(LaserComponentOrder) |->
        [ent |-> e, component |-> LaserComponentOrder[i],
         value |-> DefaultComponent(LaserComponentOrder[i])]]

\* The calls of the whole loop, entities in join order.
RECURSIVE AttachCalls(_)
AttachCalls(ents) ==
    IF ents = {} THEN << >>
    ELSE LET e == MinOf(ents)
         IN AttachCallsFor(e) \o AttachCalls(ents \ {e})

\* Mutant of AttachWorklist: the loop joins the entities alone.
AttachWorklistAllEntities == AtomEntities

\* (&ent, &newly_created).join()
AttachWorklist == newlyCreated

\* Storage insert: the component is added, or replaces the one present.
InsertComponent(storage, call) ==
    [k \in DOMAIN storage \cup {<<call.ent, call.component>>} |->
        IF k = <<call.ent, call.component>> THEN call.value ELSE storage[k]]

\* Mutant of UpdaterInsert: the component is inserted at once.
UpdaterInsertImmediate(st, call) ==
    [laser |-> InsertComponent(st.laser, call), queue |-> st.queue]

\* updater.insert(ent, component): LazyUpdate queues the insert; the storages
\* are not touched.
UpdaterInsert(st, call) ==
    [laser |-> st.laser, queue |-> Append(st.queue, call)]

\* World::maintain applies the queued inserts in the order they were made.
RECURSIVE ApplyLazy(_, _)
ApplyLazy(storage, queue) ==
    IF queue = << >> THEN storage
    ELSE ApplyLazy(InsertComponent(storage, Head(queue)), Tail(queue))

\* Every laser component of an atom attached in an earlier step, as the
\* pipeline has left them.
ExistingAtom(e, total, contents) ==
    [k \in {e} \X LaserComponents |->
        IF k[2] \in ArrayComponents THEN [contents |-> contents]
        ELSE IF k[2] = "TotalPhotonsScattered" THEN [total |-> total]
        ELSE [ground |-> "computed", excited |-> "computed"]]

\* The laser components one entity may carry at the start: none, or all.
EntityOptions(e) ==
    {[k \in {} |-> 0]}
        \cup {ExistingAtom(e, t, a) :
                 t \in 0..1, a \in {NewVec, [i \in 1..BEAM_LIMIT |-> 1]}}

Merge(f, g) ==
    [k \in DOMAIN f \cup DOMAIN g |-> IF k \in DOMAIN f THEN f[k] ELSE g[k]]

\* No attach system, no laser component.
AttachIdle ==
    /\ newlyCreated = {}
    /\ laser = << >>
    /\ lazyQueue = << >>
    /\ attachPc = "idle"
    /\ attachTodo = << >>

\* A world between two steps: a newly created atom carries the marker and no
\* laser component yet.
AttachInit ==
    /\ newlyCreated \in SUBSET AtomEntities
    /\ laser \in {Merge(f, g) : f \in EntityOptions(2), g \in EntityOptions(3)}
    /\ \A e \in newlyCreated : Comps(e) = {}
    /\ lazyQueue = << >>
    /\ attachPc = "idle"
    /\ attachTodo = << >>

\* AttachLaserComponentsToNewlyCreatedAtomsSystem::run is entered.
AttachStart ==
    /\ attachPc = "idle"
    /\ attachPc' = "running"
    /\ attachTodo' = AttachCalls(AttachWorklist)
    /\ UNCHANGED <<newlyCreated, laser, lazyQueue>>

\* One updater.insert call of the loop.
AttachInsert ==
    /\ attachPc = "running"
    /\ attachTodo # << >>
    /\ LET r == UpdaterInsert([laser |-> laser, queue |-> lazyQueue],
                              Head(attachTodo))
       IN /\ laser' = r.laser
          /\ lazyQueue' = r.queue
    /\ attachTodo' = Tail(attachTodo)
    /\ UNCHANGED <<newlyCreated, attachPc>>

\* The loop is over: run returns; the other systems of the step go on.
AttachEnd ==
    /\ attachPc = "running"
    /\ attachTodo = << >>
    /\ attachPc' = "done"
    /\ UNCHANGED <<newlyCreated, laser, lazyQueue, attachTodo>>

\* The step is over: World::maintain applies the queued inserts.
Maintain ==
    /\ attachPc = "done"
    /\ laser' = ApplyLazy(laser, lazyQueue)
    /\ lazyQueue' = << >>
    /\ attachPc' = "idle"
    /\ UNCHANGED <<newlyCreated, attachTodo>>

\* A system of the pipeline joins the atoms that carry the laser components
\* and accumulates into TotalPhotonsScattered, while or after the attach
\* system runs.
PipelineWrite(e) ==
    /\ attachPc \in {"running", "done"}
    /\ Comps(e) = LaserComponents
    /\ laser[<<e, "TotalPhotonsScattered">>].total < MaxPhotons
    /\ laser' = [laser EXCEPT ![<<e, "TotalPhotonsScattered">>] =
                                  [total |-> @.total + 1]]
    /\ UNCHANGED <<newlyCreated, lazyQueue, attachPc, attachTodo>>

\* Between two steps an atom is created: it carries NewlyCreated and no laser
\* component.
CreateAtom(e) ==
    /\ attachPc = "idle"
    /\ e \notin newlyCreated
    /\ Comps(e) = {}
    /\ newlyCreated' = newlyCreated \cup {e}
    /\ UNCHANGED <<laser, lazyQueue, attachPc, attachTodo>>

\* Between two steps the NewlyCreated marker is taken off an atom.
Deflag(e) ==
    /\ attachPc = "idle"
    /\ e \in newlyCreated
    /\ newlyCreated' = newlyCreated \ {e}
    /\ UNCHANGED <<laser, lazyQueue, attachPc, attachTodo>>

(***************************************************************************)
(* Specifications                                                          *)
(***************************************************************************)
DispatchNext ==
    \/ \E s \in Stages : StartStage(s) /\ UNCHANGED <<dipoleVars, attachVars>>
    \/ \E s \in Stages : FinishStage(s) /\ UNCHANGED <<dipoleVars, attachVars>>
    \/ EndStep /\ UNCHANGED <<dipoleVars, attachVars>>

\* The dispatcher before its first step; no dipole world.
InitDispatch == DispatchInit /\ DipoleIdle /\ AttachIdle

SpecDispatch == InitDispatch /\ [][DispatchNext]_vars

\* The dispatcher's thread pool starts every system whose predecessors are
\* done, every run() returns and dispatch() returns when all have run.
SpecDispatchFair == InitDispatch /\ [][DispatchNext]_vars /\ WF_vars(DispatchNext)

DipoleNext ==
    \/ RunStart /\ UNCHANGED <<dispatchVars, attachVars>>
    \/ \E e \in Entities : Closure(e) /\ UNCHANGED <<dispatchVars, attachVars>>
    \/ RunEnd /\ UNCHANGED <<dispatchVars, attachVars>>
    \/ RunPanic /\ UNCHANGED <<dispatchVars, attachVars>>
    \/ ClearForce /\ UNCHANGED <<dispatchVars, attachVars>>

StepsNext ==
    \/ StepClear /\ UNCHANGED <<dispatchVars, attachVars>>
    \/ StepRunStart /\ UNCHANGED <<dispatchVars, attachVars>>
    \/ \E e \in Entities : Closure(e) /\ UNCHANGED <<dispatchVars, attachVars>>
    \/ RunEnd /\ UNCHANGED <<dispatchVars, attachVars>>
    \/ RunPanic /\ UNCHANGED <<dispatchVars, attachVars>>
    \/ \E b \in BeamEntities : AddBeam(b) /\ UNCHANGED <<dispatchVars, attachVars>>
    \/ \E b \in BeamEntities : RemoveBeam(b) /\ UNCHANGED <<dispatchVars, attachVars>>

DispatchIdle ==
    /\ callerDeps = {}
    /\ stPc = [s \in Stages |-> "waiting"]

\* The dipole world before the first run; the dispatcher is not running.
InitDipole == DipoleInit /\ DispatchIdle /\ AttachIdle

\* The worlds of InitDipole in which the second beam entity does not exist
\* yet.
InitSteps ==
    /\ InitDipole
    /\ ~Has(dipoleLight, 1) /\ ~Has(dipoleIndex, 1)

SpecDipoleSteps == InitSteps /\ [][StepsNext]_vars

AttachNext ==
    \/ AttachStart /\ UNCHANGED <<dispatchVars, dipoleVars>>
    \/ AttachInsert /\ UNCHANGED <<dispatchVars, dipoleVars>>
    \/ AttachEnd /\ UNCHANGED <<dispatchVars, dipoleVars>>
    \/ Maintain /\ UNCHANGED <<dispatchVars, dipoleVars>>
    \/ \E e \in AtomEntities : PipelineWrite(e) /\ UNCHANGED <<dispatchVars, dipoleVars>>
    \/ \E e \in AtomEntities : CreateAtom(e) /\ UNCHANGED <<dispatchVars, dipoleVars>>
    \/ \E e \in AtomEntities : Deflag(e) /\ UNCHANGED <<dispatchVars, dipoleVars>>

\* The entity store between two steps; no dispatcher, no dipole world.
InitAttach == AttachInit /\ DispatchIdle /\ DipoleIdle

SpecAttach == InitAttach /\ [][AttachNext]_vars

SpecDipole == InitDipole /\ [][DipoleNext]_vars

(***************************************************************************)
(* Claims about the dispatcher (SpecDispatch)                              *)
(***************************************************************************)
Started(s) == stPc[s] # "waiting"
Done(s) == stPc[s] = "done"

C2_DeclaredPredecessorsAndBarrier ==
    /\ \A s \in PipelineStages :
           Started(s) =>
               \A d \in (IF s \in {"attach_atom_laser_components",
                                   "attach_cooling_index"}
                         THEN callerDeps
                         ELSE StageDeps(s)) : Done(d)
    /\ \A s \in PostBarrierStages :
           Started(s) =>
               \A d \in {"attach_cooling_index", "index_cooling_lights"}
                            \cup InitialiseStages : Done(d)

\* Witness of C2: sample_laser_intensity, which names only
\* initialise_actual_photons, runs.
C2_Witness ==
    /\ stPc["sample_laser_intensity"] = "running"
    /\ \A d \in InitialiseStages : Done(d)

\* C3: every system of the pipeline starts only after every system named in
\* `deps` has completed; with the force clearing system in `deps` no system
\* of the pipeline runs before Force has been reset.
C3_CallerDepsFirst ==
    \A s \in PipelineStages :
        Started(s) => \A d \in callerDeps : Done(d)

\* Witness of C3: `deps` names the force clearing system and a system that
\* does not name `deps` itself runs.
C3_Witness ==
    /\ "clear_force" \in callerDeps
    /\ stPc["index_cooling_lights"] = "running"

\* C4: calculate_emission_forces never starts before repump has completed
\* (so the two never run concurrently).
C4_RepumpBeforeEmission ==
    Started("calculate_emission_forces") => Done("repump")

\* C5: calculate_rate_coefficients, which reads the per-beam intensity, never
\* starts before sample_laser_intensity of the same step has completed.
C5_RateAfterIntensitySampling ==
    Started("calculate_rate_coefficients") => Done("sample_laser_intensity")

(***************************************************************************)
(* Claims about ApplyDipoleForceSystem (SpecDipole)                        *)
(***************************************************************************)
ZeroVector == Vector3(0, 0, 0)
InRun == sysPc \in {"running", "aborted"}

\* The entities that carry both DipoleLight and DipoleLightIndex.
BothBeamComponents == DOMAIN dipoleLight \cap DOMAIN dipoleIndex

\* The entities that carry Force, AtomicDipoleTransition and
\* LaserIntensityGradientSamplers.
AllAtomComponents == (DOMAIN force \cap DOMAIN transition) \cap DOMAIN sampler

\* C6: for every atom whose closure has returned, Force is the Force it held
\* when the run started plus the atom's dipole contribution: the earlier value
\* is neither reset nor overwritten.
C6_ForceIsAccumulated ==
    InRun =>
        \A e \in returned :
            force[e] = VAdd(forceBefore[e],
                            DipoleContribution(transition[e], sampler[e]))

\* Witness of C6: an atom that entered the run with a non-zero Force has
\* received a non-zero finite contribution.
C6_Witness ==
    /\ sysPc = "running"
    /\ \E e \in returned :
           /\ forceBefore[e] # ZeroVector
           /\ DipoleContribution(transition[e], sampler[e]) # ZeroVector
           /\ VFinite(force[e])

\* C7: with no entity carrying both DipoleLight and DipoleLightIndex, a run
\* leaves every Force exactly as it was, whatever the sampler slots hold.
C7_NoLiveBeamNoChange ==
    (InRun /\ BothBeamComponents = {}) => force = forceBefore

\* Witness of C7: there is no live beam (one entity carries a DipoleLight
\* without an index), every closure has returned, and an atom with non-zero
\* gradients in its slots and a non-zero Force was processed.
C7_Witness ==
    /\ sysPc = "running"
    /\ BothBeamComponents = {}
    /\ DOMAIN dipoleLight # {}
    /\ pending = {}
    /\ \E e \in returned :
           /\ forceBefore[e] # ZeroVector
           /\ sampler[e][1].gradient # ZeroVector

\* The terms of the closed form, written from the formula.
C8_Magnitude(atominfo) ==
    RMul(RDiv(RMul(R(3 * PI), RMul(R(C), R(C))),
              RMul(R(2), RPow(RMul(R(2 * PI), atominfo.frequency), 3))),
         atominfo.linewidth)

C8_Coefficient(f0, fi) ==
    RAdd(RDiv(R(1), RSub(f0, fi)), RDiv(R(1), RAdd(f0, fi)))

RECURSIVE C8_GradientSum(_, _)
C8_GradientSum(beams, e) ==
    IF beams = {} THEN ZeroVector
    ELSE LET b == CHOOSE x \in beams : TRUE
         IN VAdd(VScale(C8_Coefficient(transition[e].frequency,
                                       RDiv(R(C), dipoleLight[b].wavelength)),
                        sampler[e][dipoleIndex[b].index + 1].gradient),
                 C8_GradientSum(beams \ {b}, e))

C8_SlotwiseSum(s1, s2) ==
    [i \in DOMAIN s1 |-> [gradient |-> VAdd(s1[i].gradient, s2[i].gradient)]]

RECURSIVE C9_SlotSum(_, _)
C9_SlotSum(beams, e) ==
    IF beams = {} THEN ZeroVector
    ELSE LET b == CHOOSE x \in beams : TRUE
         IN VSub(C9_SlotSum(beams \ {b}, e),
                 VScale(BeamCoefficient(transition[e], dipoleLight[b]),
                        sampler[e][dipoleIndex[b].index + 1].gradient))

C9_LiveSlots == {dipoleIndex[b].index : b \in BothBeamComponents}

\* C9: the contribution of the beam with index i uses slot i of the atom's
\* samplers (a closure returns only if that slot exists for every live beam),
\* each live beam counts once, and the value of a slot that no live beam
\* addresses does not change the result.
C9_OnlyLiveSlotsCount ==
    InRun =>
        \A e \in returned :
            /\ \A i \in C9_LiveSlots : i < BEAM_LIMIT
            /\ force[e] =
                   VAdd(forceBefore[e],
                        VScale(Prefactor(transition[e]),
                               C9_SlotSum(BothBeamComponents, e)))
            /\ \A i \in (0..(BEAM_LIMIT - 1)) \ C9_LiveSlots :
                   \A g \in GradValues :
                       DipoleContribution(
                           transition[e],
                           [sampler[e] EXCEPT ![i + 1] = [gradient |-> g]])
                         = DipoleContribution(transition[e], sampler[e])

\* Witness of C9: the only live beam has index 1, slot 0 of the processed
\* atom holds another non-zero gradient, and the Force has changed.
C9_Witness ==
    /\ sysPc = "running"
    /\ C9_LiveSlots = {1}
    /\ \E e \in returned :
           /\ sampler[e][1].gradient # ZeroVector
           /\ sampler[e][1].gradient # sampler[e][2].gradient
           /\ force[e] # forceBefore[e]

C10_State ==
    InRun =>
        /\ \A e \in Entities \ AllAtomComponents :
               /\ e \notin pending /\ e \notin returned
               /\ e \in DOMAIN force => force[e] = forceBefore[e]
        /\ panicked =>
               \E b \in BothBeamComponents : dipoleIndex[b].index >= BEAM_LIMIT
        /\ (pending = {} /\ ~panicked) =>
               \A e \in AllAtomComponents :
                   /\ e \in returned
                   /\ force[e] =
                          VAdd(forceBefore[e],
                               VScale(Prefactor(transition[e]),
                                      BeamLoop(InitialTempForceCoeff,
                                               BothBeamComponents,
                                               transition[e], sampler[e]).v))

C10_Frame ==
    /\ DOMAIN force' = DOMAIN force
    /\ UNCHANGED <<transition, sampler, dipoleLight, dipoleIndex>>

\* C10: an entity lacking Force, AtomicDipoleTransition or
\* LaserIntensityGradientSamplers is skipped (no closure runs for it, none of
\* its components changes, and a panic only ever comes from a live beam whose
\* index is past the array), a beam entity lacking DipoleLight or
\* DipoleLightIndex contributes nothing, and every entity carrying all three
\* components is still processed.
C10_AbsenceIsAFilter == [](C10_State) /\ [][C10_Frame]_vars

\* Witness of C10: the first atom lacks a component, a beam entity carries
\* only one of its two components, another beam is live, and the complete
\* atom has been processed.
C10_Witness ==
    /\ sysPc = "running"
    /\ pending = {}
    /\ ~panicked
    /\ 2 \in DOMAIN force /\ 2 \notin DOMAIN sampler
    /\ force[2] # ZeroVector
    /\ BothBeamComponents # {}
    /\ (DOMAIN dipoleLight \cup DOMAIN dipoleIndex) # BothBeamComponents
    /\ 3 \in returned /\ force[3] # forceBefore[3]

\* Some live beam's slot index is not in [0, BEAM_LIMIT).
Overflow == \E b \in BothBeamComponents : dipoleIndex[b].index >= BEAM_LIMIT

\* C11: when some live beam's slot index is not in [0, BEAM_LIMIT), a run of
\* ApplyDipoleForceSystem ends in the error state, never normally, and it
\* modifies no Force, whatever the order of the closures.
C11_OverflowAbortsRun ==
    Overflow =>
        /\ InRun => (force = forceBefore /\ returned = {})
        /\ runs > 0 => InRun

\* C12: a closure never turns a finite Force into a non-finite one: a live
\* beam at the transition frequency is caught before Force is written.
C12_NoNonFiniteForce ==
    InRun =>
        \A e \in returned : VFinite(forceBefore[e]) => VFinite(force[e])

\* The Force storage after the atoms of todo have been processed one after
\* the other in entity order on a single thread, each from its own components.
RECURSIVE C13_Sequential(_, _)
C13_Sequential(f, todo) ==
    IF todo = {} THEN f
    ELSE LET e == MinOf(todo)
         IN C13_Sequential(
                [f EXCEPT ![e] = ApplyForce(f[e],
                                     DipoleContribution(transition[e], sampler[e]))],
                todo \ {e})

\* During a run, the Force of an atom whose closure has returned is the one
\* the sequential run yields, that of any other entity is still the one it had
\* at the start, whichever closures have run so far.
C13_State ==
    (InRun /\ ~panicked) =>
        \A e \in DOMAIN force :
            force[e] = IF e \in returned
                       THEN C13_Sequential(forceBefore, AllAtomComponents)[e]
                       ELSE forceBefore[e]

\* A step of a closure takes one atom off the work list, writes at most that
\* atom's Force and writes no transition, sampler or beam component.
C13_Frame ==
    (sysPc = "running" /\ sysPc' = "running") =>
        /\ UNCHANGED <<transition, sampler, dipoleLight, dipoleIndex>>
        /\ DOMAIN force' = DOMAIN force
        /\ \E e \in pending :
              /\ pending' = pending \ {e}
              /\ \A o \in DOMAIN force \ {e} : force'[o] = force[o]

\* C13: the per-atom closures are independent: each writes only its own
\* atom's Force and no other component, so under every interleaving the Force
\* of every processed atom equals the result of processing the atoms
\* sequentially.
C13_ClosuresIndependent == [](C13_State) /\ [][C13_Frame]_vars

\* Witness of C13: two atoms with different samplers have both been
\* processed and have received different forces.
C13_Witness ==
    /\ InRun /\ returned = {2, 3}
    /\ sampler[2] # sampler[3]
    /\ force[2] # force[3]
    /\ VFinite(force[2]) /\ VFinite(force[3])

\* A step of ClearForceSystem: every entity with a Force has the zero vector,
\* no Force is added or removed, no other component changes.
C15_Frame ==
    (sysPc = "idle" /\ sysPc' = "idle") =>
        /\ \A e \in DOMAIN force : force'[e] = ZeroVector
        /\ DOMAIN force' = DOMAIN force
        /\ UNCHANGED <<transition, sampler, dipoleLight, dipoleIndex>>

\* C15: after ClearForceSystem has run, the Force of every entity that has
\* one, atom or not, is the zero vector whatever it was before, and no other
\* component of any entity is modified.
C15_ClearForceZeroesEveryForce == [][C15_Frame]_vars

\* Witness of C15: an entity that has a Force but no AtomicDipoleTransition
\* (not an atom) held a non-zero Force and holds the zero vector after
\* ClearForceSystem.
C15_Witness ==
    /\ runs = 0 /\ sysPc = "idle"
    /\ Has(force, 2) /\ ~Has(transition, 2)
    /\ force[2] = ZeroVector /\ forceBefore[2] # ZeroVector

\* The systems in the order add_systems_to_dispatch registers them.
RegistrationOrder == PreBarrierOrder \o PostBarrierOrder

\* The place of a registered system in RegistrationOrder.
Position(s) == CHOOSE i \in 1..Len(RegistrationOrder) : RegistrationOrder[i] = s

\* Every declared dependency names a system of the caller or a system
\* registered earlier; hence the declared graph has no cycle.
C16_DepsNameEarlierStages ==
    \A s \in PipelineStages :
        \A d \in StageDeps(s) :
            d \in ExternalStages \/ (d \in PipelineStages /\ Position(d) < Position(s))

\* A system runs at most once in a step: it leaves "waiting" only to run,
\* leaves "running" only when done, and a done system stays done until the
\* step ends with every system done.
C16_OncePerStep ==
    \A s \in Stages :
        /\ (stPc[s] = "waiting" /\ stPc'[s] # "waiting") => stPc'[s] = "running"
        /\ (stPc[s] = "running" /\ stPc'[s] # "running") => stPc'[s] = "done"
        /\ (stPc[s] = "done" /\ stPc'[s] # "done")
               => /\ \A t \in Stages : stPc[t] = "done"
                  /\ \A t \in Stages : stPc'[t] = "waiting"

\* C16: every step runs to completion: from the start of a step every one of
\* the 20 registered systems (and the caller's) gets done, each running once,
\* and the step ends; every declared dependency names an earlier or external
\* system, so no system waits forever.
C16_StepTerminates ==
    /\ [](C16_DepsNameEarlierStages)
    /\ [][C16_OncePerStep]_vars
    /\ ((\A s \in Stages : stPc[s] = "waiting") ~> (\A s \in Stages : Done(s)))
    /\ ((\A s \in Stages : Done(s)) ~> (\A s \in Stages : stPc[s] = "waiting"))

\* Witness of C16: all 20 registered systems and the caller's have run.
C16_Witness ==
    /\ Len(RegistrationOrder) = 20
    /\ \A s \in Stages : Done(s)

\* The physics chain, in the order of the claim.
PhysicsChain ==
    << "calculate_doppler_shift",
       "calculate_laser_detuning",
       "calculate_rate_coefficients",
       "calculate_twolevel",
       "calculate_total_photons",
       "calculate_expected_photons",
       "calculate_actual_photons",
       "calculate_absorption_forces",
       "calculate_emission_forces" >>

\* C17: within a step each system of the physics chain starts only after
\* the previous one of the chain has completed, so the chain runs in one
\* total order with no overlap.
C17_PhysicsChainInOrder ==
    \A i \in 1..(Len(PhysicsChain) - 1) :
        Started(PhysicsChain[i + 1]) => Done(PhysicsChain[i])

\* Witness of C17: calculate_emission_forces, the last of the chain, runs
\* while repump, which is not of the chain, has not started.
C17_Witness ==
    /\ stPc["calculate_emission_forces"] = "running"
    /\ \A i \in 1..(Len(PhysicsChain) - 1) : Done(PhysicsChain[i])
    /\ ~Started("repump")

\* ApplyDipoleForceSystem has processed every joined atom and is about to
\* return: the end of the step's force calculation.
EndOfRun == sysPc = "running" /\ pending = {} /\ ~panicked

\* C18: when every step runs ClearForceSystem before ApplyDipoleForceSystem,
\* the Force of every atom at the end of a step is exactly the contribution
\* computed in that step from the beams of that step, and the Force of an
\* entity the system does not join is zero: nothing of an earlier step is
\* carried over, also when beams were added or removed in between.
C18_ForceIsThisStepsContribution ==
    EndOfRun =>
        \A e \in DOMAIN force :
            force[e] = IF e \in AllAtomComponents
                       THEN DipoleContribution(transition[e], sampler[e])
                       ELSE ZeroVector

\* Witness of C18: at the end of a second step, run with a beam that was
\* added after the first step, an atom holds a non-zero finite Force.
C18_Witness ==
    /\ EndOfRun /\ runs >= 2
    /\ 1 \in BothBeamComponents
    /\ \E e \in returned : VFinite(force[e]) /\ force[e] # ZeroVector

\* C14: every per-beam array the attach system inserts for a newly created
\* atom has exactly BEAM_LIMIT slots, each holding the neutral default.
C14_AttachedArraysHaveBeamLimitSlots ==
    \A i \in 1..Len(lazyQueue) :
        lazyQueue[i].component \in ArrayComponents =>
            /\ Len(lazyQueue[i].value.contents) = BEAM_LIMIT
            /\ \A j \in 1..BEAM_LIMIT : lazyQueue[i].value.contents[j] = 0

\* The step of World::maintain that ends the step of the attach system.
MaintainStep == attachPc = "done" /\ attachPc' = "idle"

\* The components the attach system gives an atom.
AttachedComponents(e) ==
    [k \in {e} \X LaserComponents |-> DefaultComponent(k[2])]

\* The part of the laser storages that belongs to entity e.
LaserOf(storage, e) ==
    [k \in {k \in DOMAIN storage : k[1] = e} |-> storage[k]]

\* No insert is queued for an entity without NewlyCreated.
C19_State == \A i \in 1..Len(lazyQueue) : lazyQueue[i].ent \in newlyCreated

\* The attach system writes no storage while it runs, and the maintain that
\* follows leaves every entity with NewlyCreated with the eight components
\* and every other entity's components as they were.
C19_Frame ==
    /\ (attachPc = "running" /\ lazyQueue' # lazyQueue) => laser' = laser
    /\ MaintainStep =>
          \A e \in AtomEntities :
              LaserOf(laser', e) = IF e \in newlyCreated
                                   THEN AttachedComponents(e)
                                   ELSE LaserOf(laser, e)

\* C19: the attach system affects only the entities that carry NewlyCreated
\* when it runs: each ends up with all eight laser components, and no
\* component of any other entity is inserted, replaced or reset, so the
\* TotalPhotonsScattered and the arrays of an existing atom persist.
C19_OnlyNewlyCreatedAttached == [](C19_State) /\ [][C19_Frame]_vars

\* Witness of C19: after the maintain one atom carries NewlyCreated and the
\* eight components, the other, without NewlyCreated, still holds the
\* photons it has accumulated and its filled arrays.
C19_Witness ==
    /\ attachPc = "idle"
    /\ 2 \in newlyCreated /\ Comps(2) = LaserComponents
    /\ 3 \notin newlyCreated /\ Comps(3) = LaserComponents
    /\ laser[<<3, "TotalPhotonsScattered">>].total = MaxPhotons
    /\ Len(laser[<<3, "DopplerShiftSamplers">>].contents) = BEAM_LIMIT

\* At every moment an entity carries none or all of the eight components.
C20_State == \A e \in AtomEntities : Comps(e) \in {{}, LaserComponents}

\* Only World::maintain changes which components an entity carries, and
\* after it every entity with NewlyCreated carries all eight.
C20_Frame ==
    /\ ~MaintainStep => \A e \in AtomEntities : Comps(e)' = Comps(e)
    /\ MaintainStep => \A e \in newlyCreated : Comps(e)' = LaserComponents

\* C20: the inserts of the attach system are deferred: no component appears
\* before the maintain that ends the step, so no system ever sees an atom
\* with some but not all of the eight components, and an atom first seen in
\* one step carries them all from the next step on.
C20_AttachIsDeferred == [](C20_State) /\ [][C20_Frame]_vars

\* Witness of C20: the attach system has returned with its eight inserts
\* for a new atom queued, and the atom carries no laser component yet.
C20_Witness ==
    /\ attachPc = "done"
    /\ 2 \in newlyCreated
    /\ Len(lazyQueue) >= Len(LaserComponentOrder)
    /\ \A i \in 1..Len(LaserComponentOrder) : lazyQueue[i].ent = 2
    /\ Comps(2) = {}

====
